---- MODULE Spec2Model ----
(***************************************************************************)
(* Threshold infection spread on an N-dimensional 0/1 grid (spread.py).    *)
(* Two generator functions, spread_lattice (zero-padded boundary) and      *)
(* spread_torus (periodic boundary), are modelled as one generator frame   *)
(* whose position is pc; every next() of the consumer is one action.       *)
(* numpy arrays that can be shared with the caller or the consumer live in *)
(* heap and are referred to by their index; private temporaries are plain  *)
(* values.                                                                 *)
(***************************************************************************)
EXTENDS Integers, Sequences, FiniteSets, TLC

\* ---- bounds of the model ----
MaxN == 2
MaxSide == 3
MaxCells == 9
NegM == 1
MaxM == 5
MaxMutations == 1
MaxCellsM == 4
MaxCellsFair == 4
MaxLine == 5
MaxCellsBool == 4
MaxCellsPair == 9

VARIABLES policy, m, shape, heap, start0, infected, last_infected, weight,
          emitted, snap, pc, steps, mutations

vars == <<policy, m, shape, heap, start0, infected, last_infected, weight,
          emitted, snap, pc, steps, mutations>>

\* ---- array geometry ----
RECURSIVE Size(_)
Size(shp) == IF shp = <<>> THEN 1 ELSE Head(shp) * Size(Tail(shp))

RECURSIVE MaxDim(_)
MaxDim(shp) ==
    IF shp = <<>> THEN 0
    ELSE LET r == MaxDim(Tail(shp)) IN IF Head(shp) > r THEN Head(shp) ELSE r

Cells(shp) ==
    LET top == MaxDim(shp)
    IN {x \in [1..Len(shp) -> 0..(top - 1)] : \A a \in 1..Len(shp) : x[a] < shp[a]}

Shapes ==
    {s \in UNION {[1..n -> 0..MaxSide] : n \in 1..MaxN} : Size(s) <= MaxCells}

Grids(shp) == [Cells(shp) -> {0, 1}]

\* ---- numpy primitives, computed the way numpy computes them ----
\* variant: a shift that drops what leaves the axis instead of wrapping it
RollNoWrap(arr, shp, shift, axis) ==
    [x \in DOMAIN arr |->
        IF x[axis] - shift >= 0 /\ x[axis] - shift < shp[axis]
        THEN arr[[x EXCEPT ![axis] = x[axis] - shift]]
        ELSE 0]

\* variant: an axis of size 1 is skipped, so a cell is not its own neighbour
RollSkipSelf(arr, shp, shift, axis) ==
    [x \in DOMAIN arr |->
        IF shp[axis] = 1 THEN 0
        ELSE arr[[x EXCEPT ![axis] = (x[axis] - shift) % shp[axis]]]]

\* np.roll(arr, shift, axis): the element at index j along axis moves to
\* (j + shift) mod n, so result[x] = arr[x with x_axis := (x_axis - shift) mod n]
Roll(arr, shp, shift, axis) ==
    [x \in DOMAIN arr |-> arr[[x EXCEPT ![axis] = (x[axis] - shift) % shp[axis]]]]

PadShape(shp) == [a \in 1..Len(shp) |-> shp[a] + 2]

\* variant: the zero border is filled with ones, constant_values=1
PadOnes(arr, shp) ==
    [x \in Cells(PadShape(shp)) |->
        IF \A a \in 1..Len(shp) : x[a] >= 1 /\ x[a] <= shp[a]
        THEN arr[[a \in 1..Len(shp) |-> x[a] - 1]]
        ELSE 1]

\* np.pad(arr, 1, 'constant', constant_values=0)
Pad(arr, shp) ==
    [x \in Cells(PadShape(shp)) |->
        IF \A a \in 1..Len(shp) : x[a] >= 1 /\ x[a] <= shp[a]
        THEN arr[[a \in 1..Len(shp) |-> x[a] - 1]]
        ELSE 0]

\* arr[tuple(slice(1,-1) for i in range(ndim))]; shp is the shape of the result
Unpad(arr, shp) ==
    [x \in Cells(shp) |-> arr[[a \in 1..Len(shp) |-> x[a] + 1]]]

\* variant: the accumulator starts at one, np.ones_like
Ones(shp) == [x \in Cells(shp) |-> 1]

\* np.zeros_like
Zeros(shp) == [x \in Cells(shp) |-> 0]

\* elementwise + of two arrays of dtype dt; on bool arrays + is logical or
Add(dt, a, b) ==
    [x \in DOMAIN a |->
        IF dt = "bool" THEN (IF a[x] + b[x] >= 1 THEN 1 ELSE 0) ELSE a[x] + b[x]]

\* for i in range(ndim): weight += np.roll(arr, 1, axis=i) + np.roll(arr, -1, axis=i)
RECURSIVE Accumulate(_, _, _, _, _)
Accumulate(w, arr, shp, dt, i) ==
    IF i > Len(shp) THEN w
    ELSE Accumulate(Add(dt, w, Add(dt, Roll(arr, shp, 1, i), Roll(arr, shp, -1, i))),
                    arr, shp, dt, i + 1)

\* variant: the zero border is forgotten, so the rolls wrap around the grid
LatticeWeightNoPad(arr, shp, dt) ==
    Accumulate(Zeros(shp), arr, shp, dt, 1)

\* spread_lattice: pad, accumulate over the padded array, strip the border
LatticeWeight(arr, shp, dt) ==
    Unpad(Accumulate(Zeros(PadShape(shp)), Pad(arr, shp), PadShape(shp), dt, 1), shp)

\* spread_torus: accumulate over the array itself
TorusWeight(arr, shp, dt) ==
    Accumulate(Zeros(shp), arr, shp, dt, 1)

Weight(pol, arr, shp, dt) ==
    IF pol = "lattice" THEN LatticeWeight(arr, shp, dt) ELSE TorusWeight(arr, shp, dt)

\* variant: strict comparison, weight > m
UpdateStrict(w, arr, mm) ==
    [x \in DOMAIN arr |->
        LET t == IF w[x] > mm THEN 1 ELSE 0
        IN IF t = 1 \/ arr[x] = 1 THEN 1 ELSE 0]

\* variant: the previous infection is not or-ed in
UpdateNoOr(w, arr, mm) ==
    [x \in DOMAIN arr |-> IF w[x] >= mm THEN 1 ELSE 0]

\* np.where(weight >= m, 1, 0) | infected
Update(w, arr, mm) ==
    [x \in DOMAIN arr |->
        LET t == IF w[x] >= mm THEN 1 ELSE 0
        IN IF t = 1 \/ arr[x] = 1 THEN 1 ELSE 0]

\* variant: stop only once every cell is infected, np.all(infected == 1)
ConvergedAllInfected(new, last) == \A x \in DOMAIN new : new[x] = 1

\* variant: stop as soon as any cell is unchanged, np.any(...)
ConvergedAny(new, last) == \E x \in DOMAIN new : new[x] = last[x]

\* np.all(infected == last_infected)
Converged(new, last) == \A x \in DOMAIN new : new[x] = last[x]

\* variant: no copy is taken, the name refers to the caller's object
CopyAlias(h, id) == <<h, id>>

\* np.copy(h[id]): a fresh object with the same dtype and contents
Copy(h, id) == <<Append(h, h[id]), Len(h) + 1>>

\* variant: the update is written into the existing object (infected |= ...)
RebindInPlace(h, id, arr) == <<[h EXCEPT ![id] = arr], id>>

\* infected = <new array>: the name is bound to a fresh object
Rebind(h, id, arr) == <<Append(h, arr), Len(h) + 1>>

\* ---- the generator ----
Init ==
    /\ policy \in {"lattice", "torus"}
    /\ m \in (0 - NegM)..MaxM
    /\ shape \in Shapes
    /\ \E g \in Grids(shape) :
          /\ heap = <<[dtype |-> "int", data |-> g]>>
          /\ start0 = g
    /\ infected = 0
    /\ last_infected = <<>>
    /\ weight = <<>>
    /\ emitted = <<>>
    /\ snap = <<>>
    /\ pc = "created"
    /\ steps = 0
    /\ mutations = 0

\* variant: the yield sits at the end of the loop body, after the update
BeginLate(pol) ==
    /\ pc = "created"
    /\ policy = pol
    /\ LET cur == heap[1]
           w == Weight(pol, cur.data, shape, cur.dtype)
           new == [dtype |-> "int", data |-> Update(w, cur.data, m)]
       IN /\ heap' = Append(heap, new)
          /\ infected' = Len(heap) + 1
          /\ weight' = w
          /\ emitted' = Append(emitted, Len(heap) + 1)
          /\ snap' = Append(snap, new.data)
    /\ pc' = "suspended"
    /\ UNCHANGED <<policy, m, shape, start0, last_infected, steps, mutations>>

\* first next(): infected = np.copy(start); while True: yield infected
Begin(pol) ==
    /\ pc = "created"
    /\ policy = pol
    /\ LET b == Copy(heap, 1)
       IN /\ heap' = b[1]
          /\ infected' = b[2]
          /\ emitted' = Append(emitted, b[2])
          /\ snap' = Append(snap, b[1][b[2]].data)
    /\ pc' = "suspended"
    /\ UNCHANGED <<policy, m, shape, start0, last_infected, weight, steps, mutations>>

\* later next(): one pass of the loop body after the yield, then either the
\* break (StopIteration) or the next yield; weight and the new array are
\* each computed once
Resume(pol) ==
    /\ pc = "suspended"
    /\ policy = pol
    /\ \E w \in {Weight(pol, heap[infected].data, shape, heap[infected].dtype)} :
       \E nd \in {Update(w, heap[infected].data, m)} :
       LET last == heap[infected].data
           b == Rebind(heap, infected, [dtype |-> "int", data |-> nd])
       IN /\ last_infected' = last
          /\ weight' = w
          /\ heap' = b[1]
          /\ infected' = b[2]
          /\ steps' = steps + 1
          /\ IF Converged(b[1][b[2]].data, last)
             THEN /\ pc' = "done"
                  /\ UNCHANGED <<emitted, snap>>
             ELSE /\ pc' = "suspended"
                  /\ emitted' = Append(emitted, b[2])
                  /\ snap' = Append(snap, b[1][b[2]].data)
    /\ UNCHANGED <<policy, m, shape, start0, mutations>>

LatticeNext == Begin("lattice") \/ Resume("lattice")

TorusNext == Begin("torus") \/ Resume("torus")

Next == LatticeNext \/ TorusNext

Spec == Init /\ [][Next]_vars

\* a consumer that keeps requesting values: next() is always eventually served
InitFair == Init /\ Size(shape) <= MaxCellsFair

FairSpec == InitFair /\ [][Next]_vars /\ WF_vars(Next)

\* ---- a consumer that writes into the arrays it was handed ----
InitM == Init /\ Size(shape) <= MaxCellsM

\* between two requests the consumer flips one cell of an array it received
ConsumerMutate ==
    /\ pc = "suspended"
    /\ mutations < MaxMutations
    /\ \E i \in 1..Len(emitted) : \E c \in Cells(shape) :
          heap' = [heap EXCEPT ![emitted[i]].data[c] = 1 - @]
    /\ mutations' = mutations + 1
    /\ UNCHANGED <<policy, m, shape, start0, infected, last_infected, weight,
                   emitted, snap, pc, steps>>

NextM == Next \/ ConsumerMutate

SpecM == InitM /\ [][NextM]_vars

\* ---- one-dimensional grids, up to the length of the worked scenarios ----
InitLine ==
    /\ policy \in {"lattice", "torus"}
    /\ m \in (0 - NegM)..MaxM
    /\ shape \in {<<n>> : n \in 1..MaxLine}
    /\ \E g \in Grids(shape) :
          /\ heap = <<[dtype |-> "int", data |-> g]>>
          /\ start0 = g
    /\ infected = 0
    /\ last_infected = <<>>
    /\ weight = <<>>
    /\ emitted = <<>>
    /\ snap = <<>>
    /\ pc = "created"
    /\ steps = 0
    /\ mutations = 0

SpecLine == InitLine /\ [][Next]_vars

\* ---- a boolean initial grid ----
InitBool ==
    /\ policy \in {"lattice", "torus"}
    /\ m \in (0 - NegM)..MaxM
    /\ shape \in {s \in Shapes : Size(s) <= MaxCellsBool}
    /\ \E g \in Grids(shape) :
          /\ heap = <<[dtype |-> "bool", data |-> g]>>
          /\ start0 = g
    /\ infected = 0
    /\ last_infected = <<>>
    /\ weight = <<>>
    /\ emitted = <<>>
    /\ snap = <<>>
    /\ pc = "created"
    /\ steps = 0
    /\ mutations = 0

SpecBool == InitBool /\ [][Next]_vars

\* list(spread_lattice(arr, mm)) or list(spread_torus(arr, mm)) for an array
\* of dtype dt: the drained generator as a function of its arguments; every
\* array after the first is the int array built by np.where
RECURSIVE Drain(_, _, _, _, _)
Drain(pol, arr, dt, shp, mm) ==
    LET nd == Update(Weight(pol, arr, shp, dt), arr, mm)
    IN IF Converged(nd, arr) THEN <<arr>>
       ELSE <<arr>> \o Drain(pol, nd, "int", shp, mm)

\* ---- runs whose sequence is compared with the other function's ----
InitPair == Init /\ Size(shape) <= MaxCellsPair

SpecPair == InitPair /\ [][Next]_vars

\* ---- the update rule stated cell by cell, independently of numpy ----
Dirs == {-1, 1}

\* number of Infected in-grid neighbours at distance 1 (off-grid contributes 0)
BoundedCount(S, shp, x) ==
    Cardinality({ad \in (1..Len(shp)) \X Dirs :
                    /\ x[ad[1]] + ad[2] >= 0
                    /\ x[ad[1]] + ad[2] < shp[ad[1]]
                    /\ S[[x EXCEPT ![ad[1]] = x[ad[1]] + ad[2]]] = 1})

\* sum over the axes of the two wrapped neighbours along the axis
RECURSIVE PeriodicCount(_, _, _, _)
PeriodicCount(S, shp, x, a) ==
    IF a > Len(shp) THEN 0
    ELSE S[[x EXCEPT ![a] = (x[a] - 1) % shp[a]]]
         + S[[x EXCEPT ![a] = (x[a] + 1) % shp[a]]]
         + PeriodicCount(S, shp, x, a + 1)

NeighbourCount(pol, S, shp, x) ==
    IF pol = "lattice" THEN BoundedCount(S, shp, x) ELSE PeriodicCount(S, shp, x, 1)

ThresholdUpdate(pol, S, shp, mm) ==
    [x \in Cells(shp) |->
        IF S[x] = 1 \/ NeighbourCount(pol, S, shp, x) >= mm THEN 1 ELSE 0]

LastSnap == snap[Len(snap)]

\* the state the current value of weight was computed from
WeightSource == IF pc = "done" THEN snap[Len(snap)] ELSE snap[Len(snap) - 1]

\* C1: every emitted state after the first is the threshold update of the
\* state emitted just before it: Infected iff already Infected or the
\* neighbour count under the function's boundary policy is >= m
C1_ThresholdUpdate ==
    \A i \in 1..(Len(snap) - 1) :
        snap[i + 1] = ThresholdUpdate(policy, snap[i], shape, m)

C1_Witness ==
    /\ Len(snap) >= 3
    /\ Size(shape) = 9
    /\ Len(shape) = 2
    /\ m = 2

\* C2: monotonicity: every cell Infected in an emitted state is Infected in
\* the next emitted state
C2_Monotone ==
    \A i \in 1..(Len(snap) - 1) : \A x \in Cells(shape) :
        snap[i][x] = 1 => snap[i + 1][x] = 1

C2_Witness ==
    /\ Len(snap) >= 2
    /\ m >= 1
    /\ \E x \in Cells(shape) : snap[1][x] = 1 /\ snap[2][x] = 1
    /\ \E x \in Cells(shape) : snap[1][x] = 0 /\ snap[2][x] = 1

\* C3: no two consecutive emitted states are elementwise equal, and the state
\* that equals its predecessor is computed but not emitted
C3_NoDuplicate ==
    /\ \A i \in 1..(Len(snap) - 1) : snap[i] /= snap[i + 1]
    /\ pc = "suspended" => steps = Len(emitted) - 1
    /\ pc = "done" => steps = Len(emitted)

C3_Witness ==
    /\ pc = "done"
    /\ Len(snap) >= 2
    /\ Update(weight, LastSnap, m) = LastSnap

\* C4: the sequence ends, and it has at most (number of cells) + 1 states
C4_Terminates ==
    /\ <>(pc = "done")
    /\ [](Len(emitted) <= Size(shape) + 1)

C4_Witness ==
    /\ pc = "done"
    /\ Len(emitted) = Size(shape) + 1

\* C5: the first emitted state is the caller's initial grid, emitted before
\* any neighbour count or update has been computed
C5_FirstIsStart ==
    /\ Len(snap) >= 1 => snap[1] = start0
    /\ (pc = "suspended" /\ Len(emitted) = 1) => (steps = 0 /\ weight = <<>>)
    /\ pc = "created" => emitted = <<>>

C5_Witness ==
    /\ pc = "done"
    /\ Len(snap) = 1
    /\ snap[1] = start0
    /\ Size(shape) >= 4
    /\ \E x \in Cells(shape) : start0[x] = 1

\* C6: the last state of a drained sequence is a fixpoint of the update
C6_Fixpoint ==
    pc = "done" => ThresholdUpdate(policy, LastSnap, shape, m) = LastSnap

C6_Witness ==
    /\ pc = "done"
    /\ Len(snap) >= 2
    /\ \E x \in Cells(shape) : LastSnap[x] = 0
    /\ \E x \in Cells(shape) : LastSnap[x] = 1

\* C7: in spread_lattice the weight of a cell is the number of Infected
\* in-grid neighbours; off-grid positions add nothing and nothing wraps
C7_BoundedWeight ==
    (policy = "lattice" /\ steps > 0) =>
        \A x \in Cells(shape) : weight[x] = BoundedCount(WeightSource, shape, x)

C7_Witness ==
    /\ policy = "lattice"
    /\ steps > 0
    /\ \E a \in 1..Len(shape) : shape[a] = 2
    /\ \E x \in Cells(shape) :
          /\ weight[x] = 1
          /\ PeriodicCount(WeightSource, shape, x, 1) > 1

\* C8: in spread_torus the weight of a cell is the sum over the axes of the
\* two wrapped neighbours, both always added, and lies in 0..2N
C8_PeriodicWeight ==
    (policy = "torus" /\ steps > 0) =>
        \A x \in Cells(shape) :
            /\ weight[x] = PeriodicCount(WeightSource, shape, x, 1)
            /\ weight[x] >= 0
            /\ weight[x] <= 2 * Len(shape)

C8_Witness ==
    /\ policy = "torus"
    /\ steps > 0
    /\ shape = <<2, 3>>
    /\ \E x \in Cells(shape) :
          /\ weight[x] = 4
          /\ BoundedCount(WeightSource, shape, x) = 2

\* C9: a consumer that modifies an emitted state between two requests changes
\* neither the states emitted afterwards nor the point of termination: the
\* emitted sequence stays the chain of threshold updates of what was emitted
\* and ends at a fixpoint of the last emitted state
C9_IndependentOfConsumer ==
    /\ \A i \in 1..(Len(snap) - 1) :
          snap[i + 1] = ThresholdUpdate(policy, snap[i], shape, m)
    /\ pc = "done" => ThresholdUpdate(policy, LastSnap, shape, m) = LastSnap

\* C10: the engine never writes into an array after yielding it: every
\* emitted array still holds what it held when it was emitted
C10_EmittedNotModified ==
    \A i \in 1..Len(emitted) : heap[emitted[i]].data = snap[i]

C10_Witness ==
    /\ pc = "done"
    /\ Len(emitted) >= 3
    /\ heap[emitted[1]].data /= heap[emitted[2]].data
    /\ heap[emitted[2]].data /= heap[emitted[3]].data
    /\ heap[emitted[1]].data = start0

\* C11: a negative threshold is rejected at construction: with m < 0 no
\* state is ever emitted (the generator neither yields nor runs to its end)
C11_NegativeRejected ==
    (m < 0 /\ Size(shape) > 0) => (emitted = <<>> /\ pc = "created")

\* C12: with m = 0 on a non-empty grid the drained sequence is the initial
\* state followed by the all-Infected state, or the initial state alone when
\* it is already all-Infected
C12_ThresholdZero ==
    (m = 0 /\ Size(shape) > 0 /\ pc = "done") =>
        IF \E x \in Cells(shape) : start0[x] = 0
        THEN /\ Len(snap) = 2
             /\ snap[1] = start0
             /\ \A x \in Cells(shape) : snap[2][x] = 1
        ELSE /\ Len(snap) = 1
             /\ snap[1] = start0

C12_Witness ==
    /\ m = 0
    /\ pc = "done"
    /\ Size(shape) = 6
    /\ Len(snap) = 2
    /\ \A x \in Cells(shape) : start0[x] = 0
    /\ \A x \in Cells(shape) : snap[2][x] = 1

\* C13: an initial state without any Infected cell and m > 0 never spreads:
\* the sequence is the initial state alone
C13_NothingToSpread ==
    (m > 0 /\ \A x \in Cells(shape) : start0[x] = 0) =>
        /\ Len(snap) <= 1
        /\ pc = "done" => (Len(snap) = 1 /\ snap[1] = start0)

C13_Witness ==
    /\ m = 2
    /\ shape = <<3, 3>>
    /\ policy = "lattice"
    /\ \A x \in Cells(shape) : start0[x] = 0
    /\ pc = "done"
    /\ Len(snap) = 1

\* C14: with m above 2N the sequence is the initial state alone, whatever
\* the initial state and the boundary policy
C14_ThresholdAboveMax ==
    m > 2 * Len(shape) =>
        /\ Len(snap) <= 1
        /\ pc = "done" => (Len(snap) = 1 /\ snap[1] = start0)

C14_Witness ==
    /\ m = 2 * Len(shape) + 1
    /\ Len(shape) = 2
    /\ pc = "done"
    /\ Len(snap) = 1
    /\ \E x \in Cells(shape) : weight[x] = 2 * Len(shape)
    /\ \E x \in Cells(shape) : start0[x] = 0

\* the two wrapped neighbours of x along every axis but a
RECURSIVE OtherAxes(_, _, _, _, _)
OtherAxes(S, shp, x, a, b) ==
    IF b > Len(shp) THEN 0
    ELSE (IF b = a THEN 0
          ELSE S[[x EXCEPT ![b] = (x[b] - 1) % shp[b]]]
               + S[[x EXCEPT ![b] = (x[b] + 1) % shp[b]]])
         + OtherAxes(S, shp, x, a, b + 1)

\* C16: in spread_torus an axis of size 1 contributes twice the cell's own
\* value to the cell's neighbour count
C16_SelfNeighbour ==
    (policy = "torus" /\ steps > 0) =>
        \A a \in 1..Len(shape) : shape[a] = 1 =>
            \A x \in Cells(shape) :
                weight[x] - OtherAxes(WeightSource, shape, x, a, 1)
                    = 2 * WeightSource[x]

C16_Witness ==
    /\ policy = "torus"
    /\ steps > 0
    /\ shape = <<1, 3>>
    /\ \E x \in Cells(shape) :
          /\ WeightSource[x] = 1
          /\ weight[x] = 3

\* C17: a shape with a dimension of size <= 0 is rejected at construction:
\* no state is ever emitted for it
C17_InvalidShapeRejected ==
    (m >= 0 /\ \E a \in 1..Len(shape) : shape[a] <= 0) =>
        (emitted = <<>> /\ pc = "created")

\* the one-dimensional grid holding the values of row
Line(row) == [x \in Cells(<<Len(row)>>) |-> row[x[1] + 1]]

ScenarioA ==
    <<Line(<<0, 0, 1, 0, 0>>), Line(<<0, 1, 1, 1, 0>>), Line(<<1, 1, 1, 1, 1>>)>>

\* C15: for shape (5), initial [0,0,1,0,0] and m = 1 both functions emit
\* exactly [0,0,1,0,0], [0,1,1,1,0], [1,1,1,1,1] in that order and then end
C15_ScenarioA ==
    (shape = <<5>> /\ start0 = ScenarioA[1] /\ m = 1) =>
        /\ Len(snap) <= 3
        /\ \A i \in 1..Len(snap) : snap[i] = ScenarioA[i]
        /\ pc = "done" => Len(snap) = 3

C15_Witness ==
    /\ shape = <<5>>
    /\ start0 = ScenarioA[1]
    /\ m = 1
    /\ pc = "done"
    /\ snap = ScenarioA
    /\ steps = 3

\* C18: the sequence produced from a boolean grid has the same length and,
\* state by state, the same Infected cells as the sequence produced from the
\* integer grid with 1 for True and 0 for False
C18_BoolLikeInt ==
    heap[1].dtype = "bool" =>
        LET asInt == Drain(policy, start0, "int", shape, m)
        IN /\ Len(snap) <= Len(asInt)
           /\ \A i \in 1..Len(snap) : snap[i] = asInt[i]
           /\ pc = "done" => Len(snap) = Len(asInt)

\* C19: the array passed as start keeps the values it had at the call, while
\* the generator is consumed, after it ends, and when the consumer writes
\* into an emitted state
C19_StartNotModified ==
    heap[1].data = start0

C19_Witness ==
    /\ pc = "done"
    /\ mutations = 1
    /\ heap[emitted[1]].data /= start0
    /\ heap[1].data = start0
    /\ Len(emitted) >= 2

\* the k-th state of a drained sequence, the last state repeated beyond its end
Extended(seq, k) == IF k <= Len(seq) THEN seq[k] ELSE seq[Len(seq)]

\* C20: for the same initial grid and threshold, every cell Infected in the
\* k-th state of spread_lattice is Infected in the k-th state of
\* spread_torus, a sequence that has ended being extended by its last state
C20_TorusDominates ==
    pc = "done" =>
        LET other == Drain(IF policy = "lattice" THEN "torus" ELSE "lattice",
                           start0, "int", shape, m)
            lat == IF policy = "lattice" THEN snap ELSE other
            tor == IF policy = "lattice" THEN other ELSE snap
        IN \A k \in 1..(Len(lat) + Len(tor)) : \A x \in Cells(shape) :
              Extended(lat, k)[x] = 1 => Extended(tor, k)[x] = 1

C20_Witness ==
    /\ pc = "done"
    /\ policy = "lattice"
    /\ Len(snap) >= 2
    /\ \E x \in Cells(shape) : LastSnap[x] = 0
    /\ LET tor == Drain("torus", start0, "int", shape, m)
       IN /\ Len(tor) > Len(snap)
          /\ \A x \in Cells(shape) : tor[Len(tor)][x] = 1

====
